---- MODULE Spec2Model ----
(***************************************************************************)
(* A model of the toy HTTP server of src/src/main.rs: the request parser   *)
(* parse_request, the response writer HTTPResponse::serialize, and the     *)
(* accept loop of main with one task per accepted connection.              *)
(*                                                                         *)
(* Text is modelled as sequences of bytes (integers 0..255); the strings   *)
(* of the source are spelled out as the bytes of their UTF-8 encoding.     *)
(***************************************************************************)
EXTENDS Integers, Sequences, FiniteSets, TLC

(***************************************************************************)
(* Bounds of the model.  BufSize stands for the 1024 of `[u8; 1024]`: the  *)
(* parser reads the buffer only through its length, so a shorter buffer    *)
(* behaves alike and keeps the reachable states enumerable.                *)
(***************************************************************************)
BufSize == 20
MaxLines == 3
MaxConns == 2
MaxReads == 3
MaxSegs == 2
WriteChunk == 19

(***************************************************************************)
(* Bytes the source names.                                                 *)
(***************************************************************************)
NUL == 0
HT == 9
LF == 10
VT == 11
FF == 12
CR == 13
SP == 32
COLON == 58
DIGIT0 == 48

CRLF == <<CR, LF>>

Min(a, b) == IF a < b THEN a ELSE b

(***************************************************************************)
(* std::str::from_utf8: TRUE iff the bytes are well-formed UTF-8.          *)
(***************************************************************************)
IsCont(b) == b >= 128 /\ b <= 191

\* Length of the well-formed UTF-8 sequence that starts s, or 0 if none does.
utf8_char_width(s) ==
    LET n == Len(s)
        b1 == s[1]
    IN  IF b1 < 128 THEN 1
        ELSE IF b1 >= 194 /\ b1 <= 223
             THEN IF n >= 2 /\ IsCont(s[2]) THEN 2 ELSE 0
        ELSE IF b1 >= 224 /\ b1 <= 239
             THEN IF /\ n >= 3
                     /\ IsCont(s[2])
                     /\ IsCont(s[3])
                     /\ (b1 = 224 => s[2] >= 160)
                     /\ (b1 = 237 => s[2] <= 159)
                  THEN 3 ELSE 0
        ELSE IF b1 >= 240 /\ b1 <= 244
             THEN IF /\ n >= 4
                     /\ IsCont(s[2])
                     /\ IsCont(s[3])
                     /\ IsCont(s[4])
                     /\ (b1 = 240 => s[2] >= 144)
                     /\ (b1 = 244 => s[2] <= 143)
                  THEN 4 ELSE 0
        ELSE 0

RECURSIVE from_utf8(_)
from_utf8(s) ==
    IF s = <<>> THEN TRUE
    ELSE LET w == utf8_char_width(s)
         IN  IF w = 0 THEN FALSE
             ELSE from_utf8(SubSeq(s, w + 1, Len(s)))

(***************************************************************************)
(* str::lines: the text is cut after every "\n"; a piece loses its "\n"    *)
(* and then one "\r" before it; a last piece without "\n" is kept as it    *)
(* is, and an empty last piece is no line.                                 *)
(***************************************************************************)
strip_cr(line) ==
    IF line # <<>> /\ line[Len(line)] = CR
    THEN SubSeq(line, 1, Len(line) - 1)
    ELSE line

RECURSIVE lines_from(_, _)
lines_from(s, cur) ==
    IF s = <<>> THEN (IF cur = <<>> THEN <<>> ELSE <<cur>>)
    ELSE IF Head(s) = LF THEN <<strip_cr(cur)>> \o lines_from(Tail(s), <<>>)
    ELSE lines_from(Tail(s), Append(cur, Head(s)))

lines(s) == lines_from(s, <<>>)

(***************************************************************************)
(* str::split_ascii_whitespace: the maximal runs of bytes that are not     *)
(* ASCII whitespace (space, tab, LF, FF, CR), in order.                    *)
(***************************************************************************)
is_ascii_whitespace(b) == b \in {SP, HT, LF, FF, CR}

RECURSIVE tokens_from(_, _)
tokens_from(s, cur) ==
    IF s = <<>> THEN (IF cur = <<>> THEN <<>> ELSE <<cur>>)
    ELSE IF is_ascii_whitespace(Head(s))
         THEN (IF cur = <<>> THEN <<>> ELSE <<cur>>) \o tokens_from(Tail(s), <<>>)
    ELSE tokens_from(Tail(s), Append(cur, Head(s)))

split_ascii_whitespace(line) == tokens_from(line, <<>>)

(***************************************************************************)
(* str::trim: strips the characters with the Unicode White_Space property  *)
(* from both ends.  WhiteSpace is the set of their UTF-8 encodings.        *)
(***************************************************************************)
WhiteSpace ==
    {<<b>> : b \in {HT, LF, VT, FF, CR, SP}}
    \cup {<<194, 133>>, <<194, 160>>, <<225, 154, 128>>}
    \cup {<<226, 128, b>> : b \in (128..138) \cup {168, 169, 175}}
    \cup {<<226, 129, 159>>, <<227, 128, 128>>}

IsPrefix(p, s) == Len(p) <= Len(s) /\ SubSeq(s, 1, Len(p)) = p
IsSuffix(p, s) == Len(p) <= Len(s) /\ SubSeq(s, Len(s) - Len(p) + 1, Len(s)) = p

RECURSIVE trim_start(_)
trim_start(s) ==
    IF \E w \in WhiteSpace : IsPrefix(w, s)
    THEN LET w == CHOOSE w \in WhiteSpace : IsPrefix(w, s)
         IN  trim_start(SubSeq(s, Len(w) + 1, Len(s)))
    ELSE s

RECURSIVE trim_end(_)
trim_end(s) ==
    IF \E w \in WhiteSpace : IsSuffix(w, s)
    THEN LET w == CHOOSE w \in WhiteSpace : IsSuffix(w, s)
         IN  trim_end(SubSeq(s, 1, Len(s) - Len(w)))
    ELSE s

trim(s) == trim_end(trim_start(s))

(***************************************************************************)
(* str::split_once(' '): the index of the first space of the line, or 0.   *)
(***************************************************************************)
first_space(line) ==
    IF \E i \in 1..Len(line) : line[i] = SP
    THEN CHOOSE i \in 1..Len(line) :
             line[i] = SP /\ \A j \in 1..(i - 1) : line[j] # SP
    ELSE 0

(***************************************************************************)
(* The result of parse_request: Ok(HTTPRequest) or Err(message).  An Err   *)
(* carries no request: its fields are empty.                               *)
(***************************************************************************)
EmptyHeaders == <<>>

Err(msg) ==
    [ok |-> FALSE, err |-> msg, method |-> <<>>, path |-> <<>>,
     version |-> <<>>, headers |-> EmptyHeaders, body |-> <<>>]

Ok(method, path, version, headers, body) ==
    [ok |-> TRUE, err |-> "", method |-> method, path |-> path,
     version |-> version, headers |-> headers, body |-> body]

NoResult == Err("none")

\* HashMap::insert: a later value for a name replaces the earlier one.
insert(headers, name, value) ==
    [k \in DOMAIN headers \cup {name} |-> IF k = name THEN value ELSE headers[k]]

\* Variants of header_loop with a plausible slip each.
\* The name ends at the last space of the line instead of the first.
last_space(line) ==
    IF \E i \in 1..Len(line) : line[i] = SP
    THEN CHOOSE i \in 1..Len(line) :
             line[i] = SP /\ \A j \in (i + 1)..Len(line) : line[j] # SP
    ELSE 0

RECURSIVE header_loop_rsplit(_, _, _)
header_loop_rsplit(ls, headers, toks) ==
    IF ls = <<>> THEN Err("Missing request body")
    ELSE LET line == Head(ls)
         IN  IF Len(trim(line)) = 0
             THEN Ok(toks[1], toks[2], toks[3], headers, Tail(ls))
             ELSE LET i == last_space(line)
                  IN  IF i = 0 THEN Err("Failed parsing headers.")
                      ELSE header_loop_rsplit(Tail(ls),
                                              insert(headers,
                                                     SubSeq(line, 1, i - 1),
                                                     SubSeq(line, i + 1, Len(line))),
                                              toks)

\* The end of the input ends the headers like a blank line does.
RECURSIVE header_loop_lenient(_, _, _)
header_loop_lenient(ls, headers, toks) ==
    IF ls = <<>> THEN Ok(toks[1], toks[2], toks[3], headers, <<>>)
    ELSE LET line == Head(ls)
         IN  IF Len(trim(line)) = 0
             THEN Ok(toks[1], toks[2], toks[3], headers, Tail(ls))
             ELSE LET i == first_space(line)
                  IN  IF i = 0 THEN Err("Failed parsing headers.")
                      ELSE header_loop_lenient(Tail(ls),
                                               insert(headers,
                                                      SubSeq(line, 1, i - 1),
                                                      SubSeq(line, i + 1, Len(line))),
                                               toks)

\* The blank line that ends the headers is left in the iterator.
RECURSIVE header_loop_keep_blank(_, _, _)
header_loop_keep_blank(ls, headers, toks) ==
    IF ls = <<>> THEN Err("Missing request body")
    ELSE LET line == Head(ls)
         IN  IF Len(trim(line)) = 0
             THEN Ok(toks[1], toks[2], toks[3], headers, ls)
             ELSE LET i == first_space(line)
                  IN  IF i = 0 THEN Err("Failed parsing headers.")
                      ELSE header_loop_keep_blank(Tail(ls),
                                                  insert(headers,
                                                         SubSeq(line, 1, i - 1),
                                                         SubSeq(line, i + 1, Len(line))),
                                                  toks)

\* The header loop and the body: ls are the lines the iterator still holds.
RECURSIVE header_loop(_, _, _)
header_loop(ls, headers, toks) ==
    IF ls = <<>> THEN Err("Missing request body")
    ELSE LET line == Head(ls)
         IN  IF Len(trim(line)) = 0
             THEN Ok(toks[1], toks[2], toks[3], headers, Tail(ls))
             ELSE LET i == first_space(line)
                  IN  IF i = 0 THEN Err("Failed parsing headers.")
                      ELSE header_loop(Tail(ls),
                                       insert(headers,
                                              SubSeq(line, 1, i - 1),
                                              SubSeq(line, i + 1, Len(line))),
                                       toks)

\* Variant of parse_text: the version is looked at only after the headers.
parse_text_late(bytes) ==
    IF ~from_utf8(bytes) THEN Err("Utf8Error")
    ELSE LET ls == lines(bytes)
         IN  IF ls = <<>> THEN Err("Failed parsing request line")
             ELSE LET toks == split_ascii_whitespace(Head(ls))
                  IN  IF Len(toks) < 1 THEN Err("Failed parsing method")
                      ELSE IF Len(toks) < 2 THEN Err("Failed parsing path")
                      ELSE LET h == header_loop(Tail(ls), EmptyHeaders,
                                                toks \o <<<<>>>>)
                           IN  IF ~h.ok THEN h
                               ELSE IF Len(toks) < 3
                                    THEN Err("Failed parsing version")
                               ELSE h

\* Variant of decoded_range: the whole buffer is decoded.
decoded_range_all(buf) == SubSeq(buf, 1, BufSize)

\* The bytes parse_request decodes: all but the last one of the buffer.
decoded_range(buf) == SubSeq(buf, 1, BufSize - 1)

\* parse_request from the decoding on: the request line, the headers, the body.
parse_text(bytes) ==
    IF ~from_utf8(bytes) THEN Err("Utf8Error")
    ELSE LET ls == lines(bytes)
         IN  IF ls = <<>> THEN Err("Failed parsing request line")
             ELSE LET toks == split_ascii_whitespace(Head(ls))
                  IN  IF Len(toks) < 1 THEN Err("Failed parsing method")
                      ELSE IF Len(toks) < 2 THEN Err("Failed parsing path")
                      ELSE IF Len(toks) < 3 THEN Err("Failed parsing version")
                      ELSE header_loop(Tail(ls), EmptyHeaders, toks)

parse_request(buf) == parse_text(decoded_range(buf))

(***************************************************************************)
(* HTTPResponse::serialize.  order is the order in which the HashMap       *)
(* hands out its entries, which the source does not control.               *)
(***************************************************************************)
\* format!("{}", status_code) for a u8: decimal, no leading zeros.
RECURSIVE u8_to_string(_)
u8_to_string(n) ==
    IF n < 10 THEN <<DIGIT0 + n>>
    ELSE u8_to_string(n \div 10) \o <<DIGIT0 + (n % 10)>>

RECURSIVE push_headers(_, _, _)
push_headers(serialized, headers, order) ==
    IF order = <<>> THEN serialized
    ELSE push_headers(
             serialized \o Head(order) \o <<COLON, SP>> \o headers[Head(order)] \o CRLF,
             headers, Tail(order))

RECURSIVE push_body(_, _)
push_body(serialized, body) ==
    IF body = <<>> THEN serialized
    ELSE push_body(serialized \o Head(body), Tail(body))

\* Variant of status_line: the space and the phrase are pushed always.
status_line_always_phrase(r) ==
    r.http_version \o <<SP>> \o u8_to_string(r.status_code)
        \o <<SP>> \o r.reason_phrase \o CRLF

status_line(r) ==
    LET s == r.http_version \o <<SP>> \o u8_to_string(r.status_code)
    IN  (IF r.reason_phrase # <<>> THEN s \o <<SP>> \o r.reason_phrase ELSE s) \o CRLF

serialize(r, order) ==
    push_body(push_headers(status_line(r), r.headers, order), r.body) \o CRLF

\* The orders in which a HashMap with these entries can be iterated.
IterOrders(headers) ==
    LET n == Cardinality(DOMAIN headers)
    IN  {o \in [1..n -> DOMAIN headers] : \A i, j \in 1..n : o[i] = o[j] => i = j}

(***************************************************************************)
(* The response main builds for every request it could parse.              *)
(***************************************************************************)
HTTP11 == <<72, 84, 84, 80, 47, 49, 46, 49>>                \* "HTTP/1.1"
OKPhrase == <<79, 75>>                                      \* "OK"
ContentLength ==
    <<67, 111, 110, 116, 101, 110, 116, 45, 76, 101, 110, 103, 116, 104>>

response_200 ==
    [http_version |-> HTTP11, status_code |-> 200, reason_phrase |-> OKPhrase,
     headers |-> (ContentLength :> <<DIGIT0>>), body |-> <<>>]

(***************************************************************************)
(* State.                                                                  *)
(***************************************************************************)
VARIABLES
    listener,   \* main: "listening" in the accept loop, "failed" once accept erred
    pc,         \* per connection task: "idle" (not accepted), "read", "write", "done"
    buf,        \* per task: its [u8; 1024]
    res,        \* per task: what the last parse_request returned
    pending,    \* per task: the bytes write_all still has to write
    sent,       \* per socket: the bytes written to it so far
    msgs,       \* per socket: the data its reads returned, in order
    why,        \* per task: what ended it
    pbuf,       \* parser check: the buffer handed to parse_request
    pres,       \* parser check: what parse_request returned
    pdone,      \* parser check: parse_request has returned
    resp,       \* serializer check: the HTTPResponse
    sout,       \* serializer check: what serialize returned
    sdone       \* serializer check: serialize has returned

svars == <<listener, pc, buf, res, pending, sent, msgs, why>>
pvars == <<pbuf, pres, pdone>>
rvars == <<resp, sout, sdone>>
vars == <<svars, pvars, rvars>>

Conn == 1..MaxConns

Zeros == [i \in 1..BufSize |-> NUL]

ServerIdle ==
    /\ listener = "listening"
    /\ pc = [c \in Conn |-> "idle"]
    /\ buf = [c \in Conn |-> Zeros]
    /\ res = [c \in Conn |-> NoResult]
    /\ pending = [c \in Conn |-> <<>>]
    /\ sent = [c \in Conn |-> <<>>]
    /\ msgs = [c \in Conn |-> <<>>]
    /\ why = [c \in Conn |-> ""]

ParseIdle ==
    /\ pbuf = Zeros
    /\ pres = NoResult
    /\ pdone = FALSE

SerIdle ==
    /\ resp = response_200
    /\ sout = <<>>
    /\ sdone = FALSE

(***************************************************************************)
(* Buffers for the parser: a request line, up to MaxLines further lines,   *)
(* each ended by the same line ending (the last one possibly by none),     *)
(* then a filler byte up to the end of the buffer, and a last byte.        *)
(***************************************************************************)
ReqLines ==
    { <<97, 32, 98, 32, 99>>,            \* "a b c"
      <<97, 32, 98>>,                    \* "a b"
      <<97>>,                            \* "a"
      <<>>,                              \* ""
      <<97, 9, 98, 32, 32, 99, 32, 100>>,\* "a\tb  c d"
      <<97, 32, 255, 32, 99>> }          \* not UTF-8

HdrLines ==
    { <<>>,                              \* ""
      <<32>>,                            \* " "
      <<194, 160>>,                      \* U+00A0, white space without a space
      <<120, 32, 121>>,                  \* "x y"
      <<120, 32, 122, 32>>,              \* "x z "
      <<120>> }                          \* "x"

Eols == {CRLF, <<LF>>}
PadBytes == {NUL, LF}
LastBytes == {NUL, 255}

RECURSIVE Join(_, _)
Join(ls, eol) ==
    IF ls = <<>> THEN <<>> ELSE Head(ls) \o eol \o Join(Tail(ls), eol)

Fill(text, pad, last) ==
    [i \in 1..BufSize |->
        IF i = BufSize THEN last
        ELSE IF i <= Len(text) THEN text[i]
        ELSE pad]

ParseInputs ==
    { Fill(IF term
           THEN Join(<<rl>> \o ls, eol)
           ELSE LET t == Join(<<rl>> \o ls, eol)
                IN  SubSeq(t, 1, Len(t) - Len(eol)),
           pad, last) :
        rl \in ReqLines,
        ls \in UNION {[1..k -> HdrLines] : k \in 0..MaxLines},
        eol \in Eols, term \in BOOLEAN, pad \in PadBytes, last \in LastBytes }

ParseInit ==
    /\ pbuf \in ParseInputs
    /\ pres = NoResult
    /\ pdone = FALSE
    /\ ServerIdle
    /\ SerIdle

DoParse ==
    /\ ~pdone
    /\ pres' = parse_request(pbuf)
    /\ pdone' = TRUE
    /\ UNCHANGED <<pbuf, svars, rvars>>

ParseNext == DoParse

SpecParse == ParseInit /\ [][ParseNext]_vars

(***************************************************************************)
(* Properties of parse_request, checked under SpecParse.                   *)
(***************************************************************************)
\* What the claims call the decoded buffer, its first line and the lines after.
Text == SubSeq(pbuf, 1, BufSize - 1)

FirstLF(t) ==
    IF \E i \in 1..Len(t) : t[i] = LF
    THEN CHOOSE i \in 1..Len(t) : t[i] = LF /\ \A j \in 1..(i - 1) : t[j] # LF
    ELSE Len(t) + 1

ReqLineOf(t) == SubSeq(t, 1, FirstLF(t) - 1)

RestLines(t) == lines(SubSeq(t, FirstLF(t) + 1, Len(t)))

\* The number of whitespace-separated tokens: the places where one starts.
TokenCount(l) ==
    Cardinality({i \in 1..Len(l) :
        /\ ~is_ascii_whitespace(l[i])
        /\ (i = 1 \/ is_ascii_whitespace(l[i - 1]))})

RECURSIVE AllWhite(_)
AllWhite(l) ==
    \/ l = <<>>
    \/ \E w \in WhiteSpace : IsPrefix(w, l) /\ AllWhite(SubSeq(l, Len(w) + 1, Len(l)))

HasSpace(l) == \E i \in 1..Len(l) : l[i] = SP

FirstBlank(ls) ==
    IF \E j \in 1..Len(ls) : AllWhite(ls[j])
    THEN CHOOSE j \in 1..Len(ls) :
             AllWhite(ls[j]) /\ \A k \in 1..(j - 1) : ~AllWhite(ls[k])
    ELSE 0

HeaderSection(ls) ==
    IF FirstBlank(ls) = 0 THEN ls ELSE SubSeq(ls, 1, FirstBlank(ls) - 1)

\* l is name, one space, value, with no space in name.
SplitsAs(l, name, value) ==
    /\ l = name \o <<SP>> \o value
    /\ ~HasSpace(name)

NameOf(l) == SubSeq(l, 1, first_space(l) - 1)

WellFormedRequestLine == from_utf8(Text) /\ TokenCount(ReqLineOf(Text)) >= 3

Tokens == {<<97>>, <<98>>, <<99>>, <<97, 98>>}

SimpleRequest(m, p, v) == m \o <<SP>> \o p \o <<SP>> \o v \o CRLF \o CRLF

\* C1: for every request text "<M> <P> <V>\r\n\r\n" with M, P, V non-empty and
\* free of whitespace, parse_request on the buffer that holds that text at its
\* front (the rest still zero) returns Ok with method M, path P, version V, no
\* headers and an empty body.
C1_SimpleRequestHasEmptyBody ==
    pdone =>
        \A m, p, v \in Tokens :
            pbuf = Fill(SimpleRequest(m, p, v), NUL, NUL)
                => pres = Ok(m, p, v, EmptyHeaders, <<>>)

RequestLineErrors ==
    {"Failed parsing request line", "Failed parsing method",
     "Failed parsing path", "Failed parsing version"}

\* C2: when the first line of the decoded buffer has fewer than 3
\* whitespace-separated tokens, parse_request fails with a request-line error
\* that the first line alone decides (which of method, path, version is the
\* first one missing), whatever the later lines are, and returns no request.
C2_ShortRequestLineFails ==
    (pdone /\ from_utf8(Text) /\ TokenCount(ReqLineOf(Text)) < 3) =>
        /\ ~pres.ok
        /\ pres.err \in RequestLineErrors
        /\ pres.err = CASE TokenCount(ReqLineOf(Text)) = 0 -> "Failed parsing method"
                        [] TokenCount(ReqLineOf(Text)) = 1 -> "Failed parsing path"
                        [] OTHER -> "Failed parsing version"
        /\ pres = Err(pres.err)

\* A short request line followed by a line that would be a malformed header
\* and by a blank line: the request-line error is what came out.
C2_Witness ==
    /\ pdone
    /\ from_utf8(Text)
    /\ TokenCount(ReqLineOf(Text)) = 2
    /\ \E i \in 1..Len(RestLines(Text)) :
           ~AllWhite(RestLines(Text)[i]) /\ ~HasSpace(RestLines(Text)[i])
    /\ FirstBlank(RestLines(Text)) > 0
    /\ pres.err = "Failed parsing version"

\* C3: after a well-formed request line, every line of the header section
\* (the lines before the first whitespace-only line) is split at its first
\* space: what is before it is the name, all that is after it, further spaces
\* included, is the value stored under that name (the last line of a name
\* wins), and nothing else is a header; a header-section line without a space
\* makes parse_request fail with the malformed-header error.
C3_HeaderSplitAtFirstSpace ==
    (pdone /\ WellFormedRequestLine) =>
        LET hs == HeaderSection(RestLines(Text))
        IN  /\ (\E i \in 1..Len(hs) : ~HasSpace(hs[i]))
                   => pres = Err("Failed parsing headers.")
            /\ pres.ok =>
                   /\ \A i \in 1..Len(hs) :
                          /\ NameOf(hs[i]) \in DOMAIN pres.headers
                          /\ (\A j \in (i + 1)..Len(hs) : NameOf(hs[j]) # NameOf(hs[i]))
                                 => SplitsAs(hs[i], NameOf(hs[i]),
                                             pres.headers[NameOf(hs[i])])
                   /\ DOMAIN pres.headers = {NameOf(hs[i]) : i \in 1..Len(hs)}

\* A header line with a second space was parsed: the value holds that space.
C3_Witness ==
    /\ pdone
    /\ pres.ok
    /\ \E n \in DOMAIN pres.headers : HasSpace(pres.headers[n])
    /\ Len(HeaderSection(RestLines(Text))) >= 2

\* C4 as stated: a well-formed request line and no blank line after it make
\* parse_request fail with "Missing request body" and nothing else.
C4_NoBlankLineIsMissingBody ==
    (pdone /\ WellFormedRequestLine /\ FirstBlank(RestLines(Text)) = 0)
        => pres = Err("Missing request body")

\* C4 as amended: with a well-formed request line and no blank line after it,
\* parse_request fails with "Missing request body" when every line after the
\* request line holds a space, and with the malformed-header error when one
\* of them holds none.
C4_NoBlankLineFails ==
    (pdone /\ WellFormedRequestLine /\ FirstBlank(RestLines(Text)) = 0) =>
        LET ls == RestLines(Text)
        IN  IF \A i \in 1..Len(ls) : HasSpace(ls[i])
            THEN pres = Err("Missing request body")
            ELSE pres = Err("Failed parsing headers.")

\* Header lines that all hold a space, no blank line: the input ran out.
C4_Witness ==
    /\ pdone
    /\ WellFormedRequestLine
    /\ FirstBlank(RestLines(Text)) = 0
    /\ Len(RestLines(Text)) >= 2
    /\ pres.err = "Missing request body"

\* C9: after a well-formed request line, the first whitespace-only line ends
\* the header section: with well-formed headers before it parse_request
\* returns Ok, that line is neither a header nor a body line, the lines after
\* it are the body, unchanged and in order, and none of them is a header.
C9_BlankLineEndsHeaders ==
    (pdone /\ WellFormedRequestLine /\ FirstBlank(RestLines(Text)) > 0) =>
        LET ls == RestLines(Text)
            j == FirstBlank(ls)
        IN  (\A i \in 1..(j - 1) : HasSpace(ls[i])) =>
                /\ pres.ok
                /\ Len(pres.body) = Len(ls) - j
                /\ \A k \in 1..Len(pres.body) : pres.body[k] = ls[j + k]
                /\ DOMAIN pres.headers = {NameOf(ls[i]) : i \in 1..(j - 1)}

\* A header, a blank line, then a line without a space and another blank
\* line: both are body lines.
C9_Witness ==
    /\ pdone
    /\ pres.ok
    /\ DOMAIN pres.headers # {}
    /\ \E b, c \in 1..Len(pres.body) :
           /\ ~HasSpace(pres.body[b]) /\ ~AllWhite(pres.body[b])
           /\ b < c
           /\ AllWhite(pres.body[c])

(***************************************************************************)
(* Responses for the serializer.                                           *)
(***************************************************************************)
Versions == {HTTP11, <<72>>}
StatusCodes == {0, 7, 10, 99, 100, 200, 255}
Phrases == {<<>>, OKPhrase, <<SP>>}
HeaderNames == {ContentLength, <<65>>}
HeaderValues == {<<DIGIT0>>, <<>>}
Segments == {<<120>>, <<>>, CRLF}

Responses ==
    [http_version : Versions,
     status_code : StatusCodes,
     reason_phrase : Phrases,
     headers : UNION {[ns -> HeaderValues] : ns \in SUBSET HeaderNames},
     body : UNION {[1..k -> Segments] : k \in 0..MaxSegs}]

SerInit ==
    /\ resp \in Responses
    /\ sout = <<>>
    /\ sdone = FALSE
    /\ ServerIdle
    /\ ParseIdle

DoSerialize ==
    /\ ~sdone
    /\ \E order \in IterOrders(resp.headers) : sout' = serialize(resp, order)
    /\ sdone' = TRUE
    /\ UNCHANGED <<resp, svars, pvars>>

SerNext == DoSerialize

SpecSer == SerInit /\ [][SerNext]_vars

(***************************************************************************)
(* Properties of HTTPResponse::serialize, checked under SpecSer.           *)
(***************************************************************************)
RECURSIVE Flatten(_)
Flatten(ss) == IF ss = <<>> THEN <<>> ELSE Head(ss) \o Flatten(Tail(ss))

\* The decimal digits of n < 1000, most significant first.
Decimal(n) ==
    IF n >= 100 THEN <<DIGIT0 + (n \div 100), DIGIT0 + ((n \div 10) % 10), DIGIT0 + (n % 10)>>
    ELSE IF n >= 10 THEN <<DIGIT0 + (n \div 10), DIGIT0 + (n % 10)>>
    ELSE <<DIGIT0 + n>>

HeaderLine(name, value) == name \o <<COLON, SP>> \o value \o CRLF

\* C5: serialize always returns, and what it returns is the version, a
\* space, the decimal status code, a space and the reason phrase only if the
\* phrase is not empty, "\r\n", one "<name>: <value>\r\n" per header entry,
\* each once and in some order, the body segments one after the other, and a
\* last "\r\n"; with an empty phrase it starts with "<version> <code>\r\n".
C5_SerializeWireFormat ==
    /\ ~sdone => ENABLED DoSerialize
    /\ sdone =>
        LET first == resp.http_version \o <<SP>> \o Decimal(resp.status_code)
            n == Cardinality(DOMAIN resp.headers)
        IN  /\ \E o \in [1..n -> DOMAIN resp.headers] :
                   /\ {o[i] : i \in 1..n} = DOMAIN resp.headers
                   /\ sout =
                          first
                          \o (IF resp.reason_phrase = <<>> THEN <<>>
                              ELSE <<SP>> \o resp.reason_phrase)
                          \o CRLF
                          \o Flatten([i \in 1..n |-> HeaderLine(o[i], resp.headers[o[i]])])
                          \o Flatten(resp.body)
                          \o CRLF
            /\ resp.reason_phrase = <<>> => IsPrefix(first \o CRLF, sout)

\* A response with an empty phrase, a three-digit code, two headers and two
\* body segments has been serialized.
C5_Witness ==
    /\ sdone
    /\ resp.reason_phrase = <<>>
    /\ resp.status_code >= 100
    /\ Cardinality(DOMAIN resp.headers) = 2
    /\ Len(resp.body) = 2
    /\ resp.body[1] # <<>>

(***************************************************************************)
(* main: the accept loop and the connection tasks.                         *)
(***************************************************************************)
\* What the reads of a socket may return: each is 1..BufSize bytes.
Request1 == <<97, 32, 98, 32, 99>> \o CRLF \o CRLF                 \* "a b c\r\n\r\n"
Request2 == <<LF>>                                                 \* "\n"
Request3 ==
    [i \in 1..BufSize |->
        IF i = BufSize THEN 255
        ELSE IF i <= 7 THEN (<<97, 32, 98, 32, 99, LF, LF>>)[i]
        ELSE 122]                                                  \* "a b c\n\nzz.."

Messages == {Request1, Request2, Request3}

\* socket.read(&mut buf) returning Ok(Len(m)): the data lands at the front.
read_into(b, m) == [i \in 1..BufSize |-> IF i <= Len(m) THEN m[i] ELSE b[i]]

RECURSIVE SumLen(_, _)
SumLen(f, S) ==
    IF S = {} THEN 0
    ELSE LET c == CHOOSE c \in S : TRUE
         IN  Len(f[c]) + SumLen(f, S \ {c})

TotalReads == SumLen(msgs, Conn)

Init ==
    /\ ServerIdle
    /\ ParseIdle
    /\ SerIdle

\* listener.accept() returns a socket and main spawns its task.
Accept(c) ==
    /\ listener = "listening"
    /\ pc[c] = "idle"
    /\ \A d \in Conn : d < c => pc[d] # "idle"
    /\ pc' = [pc EXCEPT ![c] = "read"]
    /\ buf' = [buf EXCEPT ![c] = Zeros]
    /\ UNCHANGED <<listener, res, pending, sent, msgs, why, pvars, rvars>>

\* listener.accept() fails: main returns and the runtime drops every task.
AcceptFail ==
    /\ listener = "listening"
    /\ listener' = "failed"
    /\ pc' = [c \in Conn |-> IF pc[c] \in {"read", "write"} THEN "done" ELSE pc[c]]
    /\ why' = [c \in Conn |-> IF pc[c] \in {"read", "write"} THEN "shutdown" ELSE why[c]]
    /\ UNCHANGED <<buf, res, pending, sent, msgs, pvars, rvars>>

\* Variant of ReadOk: a request that does not parse is skipped and the task
\* reads again.
ReadOk_retry(c, m) ==
    /\ pc[c] = "read"
    /\ TotalReads < MaxReads
    /\ LET b == read_into(buf[c], m)
           r == parse_request(b)
       IN  /\ buf' = [buf EXCEPT ![c] = b]
           /\ msgs' = [msgs EXCEPT ![c] = Append(@, m)]
           /\ res' = [res EXCEPT ![c] = r]
           /\ IF r.ok
              THEN /\ \E order \in IterOrders(response_200.headers) :
                          pending' = [pending EXCEPT ![c] = serialize(response_200, order)]
                   /\ pc' = [pc EXCEPT ![c] = "write"]
                   /\ why' = why
              ELSE /\ pc' = pc
                   /\ why' = [why EXCEPT ![c] = "parse"]
                   /\ pending' = pending
    /\ UNCHANGED <<listener, sent, pvars, rvars>>

\* A read returns data: the task parses the buffer and, if that worked,
\* serializes the response and starts write_all; if not, it returns.
ReadOk(c, m) ==
    /\ pc[c] = "read"
    /\ TotalReads < MaxReads
    /\ LET b == read_into(buf[c], m)
           r == parse_request(b)
       IN  /\ buf' = [buf EXCEPT ![c] = b]
           /\ msgs' = [msgs EXCEPT ![c] = Append(@, m)]
           /\ res' = [res EXCEPT ![c] = r]
           /\ IF r.ok
              THEN /\ \E order \in IterOrders(response_200.headers) :
                          pending' = [pending EXCEPT ![c] = serialize(response_200, order)]
                   /\ pc' = [pc EXCEPT ![c] = "write"]
                   /\ why' = why
              ELSE /\ pc' = [pc EXCEPT ![c] = "done"]
                   /\ why' = [why EXCEPT ![c] = "parse"]
                   /\ pending' = pending
    /\ UNCHANGED <<listener, sent, pvars, rvars>>

\* A read returns Ok(0): the peer closed the socket.
ReadEof(c) ==
    /\ pc[c] = "read"
    /\ pc' = [pc EXCEPT ![c] = "done"]
    /\ why' = [why EXCEPT ![c] = "eof"]
    /\ UNCHANGED <<listener, buf, res, pending, sent, msgs, pvars, rvars>>

\* Variant of ReadErr: the error is reported and the task reads again.
ReadErr_continue(c) ==
    /\ pc[c] = "read"
    /\ why[c] = ""
    /\ why' = [why EXCEPT ![c] = "read"]
    /\ UNCHANGED <<listener, pc, buf, res, pending, sent, msgs, pvars, rvars>>

\* A read returns Err.
ReadErr(c) ==
    /\ pc[c] = "read"
    /\ pc' = [pc EXCEPT ![c] = "done"]
    /\ why' = [why EXCEPT ![c] = "read"]
    /\ UNCHANGED <<listener, buf, res, pending, sent, msgs, pvars, rvars>>

\* Variant of WriteSome: write in place of write_all, one step and back to
\* the read.
WriteSome_once(c, k) ==
    /\ pc[c] = "write"
    /\ k \in 1..Len(pending[c])
    /\ sent' = [sent EXCEPT ![c] = @ \o SubSeq(pending[c], 1, k)]
    /\ pending' = [pending EXCEPT ![c] = <<>>]
    /\ pc' = [pc EXCEPT ![c] = "read"]
    /\ UNCHANGED <<listener, buf, res, msgs, why, pvars, rvars>>

\* write_all makes progress by k bytes; with nothing left it returns Ok and
\* the task loops back to its read.
WriteSome(c, k) ==
    /\ pc[c] = "write"
    /\ k \in 1..Len(pending[c])
    /\ sent' = [sent EXCEPT ![c] = @ \o SubSeq(pending[c], 1, k)]
    /\ pending' = [pending EXCEPT ![c] = SubSeq(@, k + 1, Len(@))]
    /\ pc' = [pc EXCEPT ![c] = IF k = Len(pending[c]) THEN "read" ELSE "write"]
    /\ UNCHANGED <<listener, buf, res, msgs, why, pvars, rvars>>

\* write_all returns Err.
WriteErr(c) ==
    /\ pc[c] = "write"
    /\ pc' = [pc EXCEPT ![c] = "done"]
    /\ why' = [why EXCEPT ![c] = "write"]
    /\ UNCHANGED <<listener, buf, res, pending, sent, msgs, pvars, rvars>>

\* The sizes of the steps in which the socket takes the bytes of a write_all.
WriteSizes(c) == {Min(WriteChunk, Len(pending[c])), Len(pending[c])}

Next ==
    \/ \E c \in Conn : Accept(c)
    \/ AcceptFail
    \/ \E c \in Conn : \E m \in Messages : ReadOk(c, m)
    \/ \E c \in Conn : ReadEof(c)
    \/ \E c \in Conn : ReadErr(c)
    \/ \E c \in Conn : \E k \in WriteSizes(c) : WriteSome(c, k)
    \/ \E c \in Conn : WriteErr(c)

Spec == Init /\ [][Next]_vars

(***************************************************************************)
(* Properties of main, checked under Spec.                                 *)
(***************************************************************************)
\* "HTTP/1.1 200 OK\r\nContent-Length: 0\r\n\r\n"
WireResponse ==
    <<72, 84, 84, 80, 47, 49, 46, 49, 32, 50, 48, 48, 32, 79, 75, 13, 10,
      67, 111, 110, 116, 101, 110, 116, 45, 76, 101, 110, 103, 116, 104,
      58, 32, 48, 13, 10, 13, 10>>

RECURSIVE Repeat(_, _)
Repeat(s, n) == IF n = 0 THEN <<>> ELSE s \o Repeat(s, n - 1)

TransportEnds == {"eof", "read", "write"}

\* Nothing of connection d changes in the step.
Untouched(d) ==
    /\ pc'[d] = pc[d]
    /\ buf'[d] = buf[d]
    /\ res'[d] = res[d]
    /\ pending'[d] = pending[d]
    /\ sent'[d] = sent[d]
    /\ msgs'[d] = msgs[d]
    /\ why'[d] = why[d]

\* The task of c does nothing in the step: no read, no parse, no write.
Stopped(c) ==
    /\ pc'[c] = "done"
    /\ buf'[c] = buf[c]
    /\ res'[c] = res[c]
    /\ sent'[c] = sent[c]
    /\ msgs'[c] = msgs[c]

\* C6: on every connection, while the task waits for a read the socket has
\* been sent exactly one whole response per request read so far, and while
\* it writes, the socket has been sent the whole responses of the earlier
\* requests and a proper part of the response to the last one read: no
\* request is read before the response to the one before it is written out.
C6_ResponseBeforeNextRead ==
    \A c \in Conn :
        /\ pc[c] = "read" => sent[c] = Repeat(WireResponse, Len(msgs[c]))
        /\ pc[c] = "write" =>
               /\ msgs[c] # <<>>
               /\ \E k \in 0..(Len(WireResponse) - 1) :
                      sent[c] = Repeat(WireResponse, Len(msgs[c]) - 1)
                                    \o SubSeq(WireResponse, 1, k)

\* A task is writing the response to its second request, part of it written.
C6_Witness ==
    \E c \in Conn :
        /\ pc[c] = "write"
        /\ Len(msgs[c]) = 2
        /\ Len(sent[c]) > Len(WireResponse)

\* C7: a step in which a task reads a request that does not parse writes no
\* byte, ends that task, and changes nothing of the listener and of the other
\* connections; an ended task stays ended and reads, parses and writes no
\* more; and the tasks and the accept loop the failure left waiting can
\* still take their next step.
C7_ParseFailureIsLocal ==
    /\ [](\A c \in Conn :
            why[c] = "parse" =>
                /\ \A d \in Conn \ {c} :
                       /\ pc[d] = "read" => ENABLED ReadEof(d)
                       /\ pc[d] = "write" => ENABLED (\E k \in WriteSizes(d) : WriteSome(d, k))
                       /\ (pc[d] = "idle" /\ listener = "listening")
                              => ENABLED (\E e \in Conn : Accept(e)))
    /\ [][\A c \in Conn :
            /\ (msgs'[c] # msgs[c] /\ ~res'[c].ok) =>
                   /\ sent'[c] = sent[c]
                   /\ pending'[c] = pending[c]
                   /\ pc'[c] = "done"
                   /\ listener' = listener
                   /\ \A d \in Conn \ {c} : Untouched(d)
            /\ why[c] = "parse" => Stopped(c)
         ]_vars

\* The second request of a connection did not parse: one response was sent,
\* and the other connection is in the middle of its own exchange.
C7_Witness ==
    \E c \in Conn :
        /\ why[c] = "parse"
        /\ Len(msgs[c]) = 2
        /\ sent[c] = WireResponse
        /\ \E d \in Conn \ {c} : pc[d] = "write" /\ sent[d] # <<>>

\* C8: a step in which the transport of a connection reports end of stream,
\* a read error or a write error ends the task of that connection and
\* changes nothing of the listener and of the other connections; from then
\* on that task reads, parses and writes nothing.
C8_TransportEndIsLocal ==
    [][\A c \in Conn :
         /\ (why'[c] \in TransportEnds /\ why'[c] # why[c]) =>
                /\ Stopped(c)
                /\ listener' = listener
                /\ \A d \in Conn \ {c} : Untouched(d)
         /\ why[c] \in TransportEnds => Stopped(c)
      ]_vars

\* A write failed half way while the other connection is being served.
C8_Witness ==
    \E c \in Conn :
        /\ why[c] = "write"
        /\ sent[c] # <<>>
        /\ Len(sent[c]) < Len(WireResponse)
        /\ \E d \in Conn \ {c} : pc[d] = "write" /\ Len(msgs[d]) = 2

\* The buffer of a task after the reads ms: each byte is what the last read
\* long enough to reach it put there, and zero if none was.
StaleBuf(ms) ==
    [i \in 1..BufSize |->
        IF \E j \in 1..Len(ms) : Len(ms[j]) >= i
        THEN LET j == CHOOSE j \in 1..Len(ms) :
                          /\ Len(ms[j]) >= i
                          /\ \A k \in (j + 1)..Len(ms) : Len(ms[k]) < i
             IN  ms[j][i]
        ELSE NUL]

\* The task of c has read and parsed a request and done nothing since.
JustParsed(c) ==
    \/ why[c] = "parse"
    \/ pc[c] = "write" /\ Len(sent[c]) = (Len(msgs[c]) - 1) * Len(WireResponse)

\* C10: after every read, the request the task parsed is the text of all
\* bytes of its buffer but the last one, whatever the length of the read:
\* behind the bytes just read come the bytes earlier reads left there (zero
\* where no read has reached), and no value of the last byte changes the
\* outcome.
C10_ParseCoversStaleBytes ==
    \A c \in Conn :
        JustParsed(c) =>
            /\ buf[c] = StaleBuf(msgs[c])
            /\ res[c] = parse_text(SubSeq(StaleBuf(msgs[c]), 1, BufSize - 1))
            /\ \A b \in {NUL, LF, SP, 97, 255} :
                   parse_request([buf[c] EXCEPT ![BufSize] = b]) = res[c]

\* A short read after a full one: the body of the request parsed is what the
\* earlier read left behind, not what the same read gives in a fresh buffer,
\* and the last byte of the buffer is no text.
C10_Witness ==
    \E c \in Conn :
        /\ Len(msgs[c]) = 2
        /\ Len(msgs[c][2]) < Len(msgs[c][1])
        /\ buf[c][BufSize] = 255
        /\ JustParsed(c)
        /\ res[c].ok
        /\ res[c].body # parse_request(read_into(Zeros, msgs[c][2])).body

====
